---------------------------- MODULE Spec2Model ----------------------------
(***************************************************************************)
(* git2jss: a model of the three parts of the package                      *)
(*   - vcs.GitRepo              (git2jss/vcs.py)        SpecRepo           *)
(*   - processors.Script / ComputerExtensionAttribute                      *)
(*                              (git2jss/processors.py) SpecSync           *)
(*   - the command line run     (git2jss/__init__.py)   Spec               *)
(*   - two runs on one JSS object (processors.py)       SpecRace           *)
(*                                                                         *)
(* Python strings are sequences.  A ref name is the sequence of its        *)
(* '/'-separated segments ("feature/x" is <<"feature","x">>, '' is <<"">>),*)
(* a text (file content, URL, command output) is a sequence of one         *)
(* character strings or of words.  An optional value is None (<< >>) or    *)
(* Some(v) (<<v>>).                                                        *)
(***************************************************************************)
EXTENDS Integers, Sequences, FiniteSets, TLC

VARIABLES
    env,          \* GitRepo: arguments of the constructor and state of the git side
    repo,         \* GitRepo: values of the instance attributes
    repo_attrs,   \* GitRepo: names of the instance attributes assigned so far
    repo_pc,      \* GitRepo: position in __init__ / life of the instance
    tmp_exists,   \* GitRepo: the directory made by tempfile.mkdtemp() is on disk
    workspace,    \* GitRepo: the files of the clone in tmp_dir
    raised,       \* GitRepo: the exception that left __init__ ("" when none)
    message,      \* GitRepo: the message of that exception
    calls,        \* GitRepo: the external commands run so far, in order
    del_calls,    \* GitRepo: number of times __del__ ran for the reclaimed instance
    del_raised,   \* GitRepo: the exception that left the last run of __del__ ("" when none)
    explicit_dels, \* GitRepo: number of times the holder of the instance called __del__
    senv,         \* sync object: constructor arguments, the repo and the JSS it is given
    obj,          \* sync object: values of the instance attributes
    target_object,\* sync object: the elements of the loaded JSS object, by name
    sync_pc,      \* sync object: "new", "opened", "failed"
    sync_raised,  \* sync object: the exception that left the last call ("" when none)
    updates,      \* sync object: number of update() calls made
    store,        \* JSS: the elements last sent by save()
    saves,        \* JSS: number of save() calls that reached the JSS
    margs,        \* main: the command line and the state of git and of the JSS
    options,      \* main: the options _get_args returned
    pc,           \* main: position in main()
    TMPDIR,       \* main: the module global TMPDIR (None until assigned)
    tmpdir_exists,\* main: the directory TMPDIR names is on disk
    files,        \* main: the files still to be handled by the for loop
    pending,      \* main: the exception travelling through the try statement
    exit_status,  \* main: how main() ended ("" while it runs)
    cleanups,     \* main: number of cleanup_tmp() calls
    events,       \* main: git and JSS operations performed, in order
    jss_saved,    \* main: the objects saved to the JSS, by name
    tpl_env,      \* template_file: the text (as pieces), data and keyword arguments
    tpl_handle,   \* template_file: the open file handle it is given
    tpl_out,      \* template_file: the text returned (None before the call)
    tpl_pc,       \* template_file: "new", "done"
    q_env,        \* file query: the created GitRepo, the disk and the path argument
    q_op,         \* file query: the method called ("" before the call)
    q_result,     \* file query: the exception raised ("" when none) and the value returned
    q_pc,         \* file query: "new", "done"
    race_env,     \* two runs: the variant and what each run pushes
    runs,         \* two runs: position, loaded object and error of each run
    remote,       \* two runs: the object the JSS holds
    remote_saves  \* two runs: the runs whose save reached the JSS, in order

repo_vars == <<env, repo, repo_attrs, repo_pc, tmp_exists, workspace,
               raised, message, calls, del_calls, del_raised, explicit_dels>>

sync_vars == <<senv, obj, target_object, sync_pc, sync_raised, updates, store, saves>>

main_vars == <<margs, options, pc, TMPDIR, tmpdir_exists, files, pending,
               exit_status, cleanups, events, jss_saved>>

tpl_vars == <<tpl_env, tpl_handle, tpl_out, tpl_pc>>

q_vars == <<q_env, q_op, q_result, q_pc>>

race_vars == <<race_env, runs, remote, remote_saves>>

vars == <<repo_vars, sync_vars, main_vars, tpl_vars, q_vars, race_vars>>

\* what an action of one part leaves alone
not_repo_vars == <<sync_vars, main_vars, tpl_vars, q_vars, race_vars>>
not_sync_vars == <<repo_vars, main_vars, tpl_vars, q_vars, race_vars>>
not_main_vars == <<repo_vars, sync_vars, tpl_vars, q_vars, race_vars>>
not_tpl_vars == <<repo_vars, sync_vars, main_vars, q_vars, race_vars>>
not_q_vars == <<repo_vars, sync_vars, main_vars, tpl_vars, race_vars>>
not_race_vars == <<repo_vars, sync_vars, main_vars, tpl_vars, q_vars>>

---------------------------------------------------------------------------
(* Python values *)

None == << >>
Some(v) == <<v>>
EmptyStr == <<"">>

\* Python truth value of an optional ref name: None and '' are false.
Truthy(o) == o # None /\ o[1] # EmptyStr

\* Python `a or b`
Or(a, b) == IF Truthy(a) THEN a ELSE b

Range(s) == {s[i] : i \in 1..Len(s)}

\* str.find(sub): the lowest 0-based index at which sub occurs in s, else -1.
Find(s, sub) ==
    LET hits == {i \in 0..(Len(s) - Len(sub)) :
                    SubSeq(s, i + 1, i + Len(sub)) = sub}
    IN IF hits = {} THEN -1
       ELSE CHOOSE i \in hits : \A j \in hits : i <= j

\* Python truth value of an int
TruthyInt(n) == n # 0

---------------------------------------------------------------------------
(* GitRepo: the inputs *)

NotAGitRepoText == <<"Not", "a", "git", "repository">>

\* 'git remote' in sourcedir: it prints the remote names, or fails with
\* CalledProcessError carrying an output text.
DiscoverResults ==
    {[ok |-> TRUE, remotes |-> r, output |-> << >>] :
        r \in {<< >>, <<"origin">>, <<"origin", "notherone">>}}
    \cup
    {[ok |-> FALSE, remotes |-> << >>, output |-> t] :
        t \in {<< >>,
               NotAGitRepoText,
               <<"fatal:">> \o NotAGitRepoText,
               <<"fatal:", "unable", "to", "read", "config">>}}

Dot == "."
GitSuffix == <<Dot, "g", "i", "t">>

RemoteUrls == {<<"u">>, <<"u">> \o GitSuffix, <<"u">> \o GitSuffix \o GitSuffix}

\* The full ref names 'git ls-remote --refs' prints, one per line.
RefLists ==
    {<< >>,
     << <<"refs", "heads", "master">>, <<"refs", "tags", "v1">> >>,
     << <<"refs", "heads", "master">>, <<"refs", "heads", "feature", "x">> >>}

RefArgs ==
    {None, Some(EmptyStr), Some(<<"v1">>), Some(<<"master">>), Some(<<"x">>),
     Some(<<"feature">>), Some(<<"feature", "x">>)}

CloneOutputs == {<<"fatal:", "repository", "not", "found">>}

Envs ==
    [tag : RefArgs, branch : RefArgs, discover : DiscoverResults,
     url : RemoteUrls, reflist : RefLists, ls_ok : BOOLEAN, clone_ok : BOOLEAN,
     clone_output : CloneOutputs]

NoRepo ==
    [tag |-> None, branch |-> None, ref |-> None, tmp_dir |-> None,
     remote_name |-> "", remote_url |-> << >>]

---------------------------------------------------------------------------
(* GitRepo: helpers *)

\* text.strip().split('\n') of the names 'git remote' prints: no name at
\* all still gives one (empty) element.
SplitLines(names) == IF names = << >> THEN <<"">> ELSE names

\* reflist.split('\n'): the output ends with a newline, so the list ends
\* with an empty line.
SplitRefLines(lines) == lines \o <<EmptyStr>>

\* t.split('\t')[-1:][0].split('/')[-1:][0]
ShortName(line) == <<line[Len(line)]>>

\* re.search(r'\.git$', _url) and _url[:-4]
StripGit(url) ==
    IF Len(url) >= 4 /\ SubSeq(url, Len(url) - 3, Len(url)) = GitSuffix
    THEN SubSeq(url, 1, Len(url) - 4)
    ELSE url

\* what 'git clone --branch ref' accepts: a branch or a tag of that name
IsBranchOrTag(ref, lines) ==
    \E i \in 1..Len(lines) :
        lines[i] \in {<<"refs", "heads">> \o ref, <<"refs", "tags">> \o ref}

Raise(exc, msg) ==
    /\ raised' = exc
    /\ message' = msg
    /\ repo_pc' = "raised"

---------------------------------------------------------------------------
(* GitRepo: the methods *)

\* _find_remote_name without the test for the empty name that
\* ''.split('\n') gives
_find_remote_name_no_empty_test(e) ==
    IF ~e.discover.ok
    THEN [exc |-> "CalledProcessError", output |-> e.discover.output, value |-> ""]
    ELSE LET remotes == SplitLines(e.discover.remotes)
         IN IF Len(remotes) > 1
            THEN [exc |-> "TooManyRemotesError", output |-> << >>, value |-> ""]
            ELSE IF Len(remotes) < 1
            THEN [exc |-> "NoRemoteError", output |-> << >>, value |-> ""]
            ELSE [exc |-> "", output |-> << >>, value |-> remotes[1]]

\* GitRepo._find_remote_name: the name of the one remote, or the exception
\* that leaves the method (CalledProcessError is check_output's).
_find_remote_name(e) ==
    IF ~e.discover.ok
    THEN [exc |-> "CalledProcessError", output |-> e.discover.output, value |-> ""]
    ELSE LET remotes == SplitLines(e.discover.remotes)
         IN IF Len(remotes) > 1
            THEN [exc |-> "TooManyRemotesError", output |-> << >>, value |-> ""]
            ELSE IF Len(remotes) < 1 \/ remotes[1] = ""
            THEN [exc |-> "NoRemoteError", output |-> << >>, value |-> ""]
            ELSE [exc |-> "", output |-> << >>, value |-> remotes[1]]

\* GitRepo._find_remote_url: the configured URL without a trailing '.git'
_find_remote_url(e) == StripGit(e.url)

\* _has_ref_on_remote as `r_name in reflist`: r_name occurs anywhere in a
\* line of the output
_has_ref_on_remote_substring(r_name, reflist) ==
    \E l \in Range(SplitRefLines(reflist)) : Find(l, r_name) >= 0

\* GitRepo._has_ref_on_remote: r_name is among the last path segments of
\* the lines of 'git ls-remote --refs'
_has_ref_on_remote(r_name, reflist) ==
    r_name \in {ShortName(l) : l \in Range(SplitRefLines(reflist))}

\* the files of a clone
ClonedFiles == {<<"README.md">>, <<"a", "file.txt">>}

\* __init__, lines 73-83: the parameter check and tempfile.mkdtemp()
GitRepoInit ==
    /\ repo_pc = "new"
    /\ IF ~Truthy(Or(env.tag, env.branch))
       THEN /\ repo' = [repo EXCEPT !.tag = env.tag, !.branch = env.branch]
            /\ repo_attrs' = {"tag", "branch"}
            /\ Raise("ParameterError", <<"Specify only one of tag or branch">>)
            /\ UNCHANGED tmp_exists
       ELSE /\ repo' = [repo EXCEPT !.tag = env.tag, !.branch = env.branch,
                                    !.ref = Or(env.tag, env.branch),
                                    !.tmp_dir = Some("tmp_dir")]
            /\ repo_attrs' = {"tag", "branch", "ref", "sourcedir", "tmp_dir"}
            /\ tmp_exists' = TRUE
            /\ repo_pc' = "find_remote_name"
            /\ UNCHANGED <<raised, message>>
    /\ UNCHANGED <<env, workspace, calls, del_calls, del_raised,
                   explicit_dels>>
    /\ UNCHANGED not_repo_vars

\* __init__, lines 85-90: remote discovery and its except clause
FindRemoteName ==
    /\ repo_pc = "find_remote_name"
    /\ calls' = Append(calls, "git remote")
    /\ LET r == _find_remote_name(env)
       IN CASE r.exc = "" ->
                 /\ repo' = [repo EXCEPT !.remote_name = r.value]
                 /\ repo_attrs' = repo_attrs \cup {"remote_name"}
                 /\ repo_pc' = "find_remote_url"
                 /\ UNCHANGED <<raised, message>>
            [] r.exc = "CalledProcessError" ->
                 /\ UNCHANGED <<repo, repo_attrs>>
                 /\ IF TruthyInt(Find(r.output, NotAGitRepoText))
                    THEN Raise("NotAGitRepoError", r.output)
                    ELSE /\ repo_pc' = "find_remote_url"
                         /\ UNCHANGED <<raised, message>>
            [] OTHER ->
                 /\ UNCHANGED <<repo, repo_attrs>>
                 /\ Raise(r.exc, r.output)
    /\ UNCHANGED <<env, tmp_exists, workspace, del_calls, del_raised,
                   explicit_dels>>
    /\ UNCHANGED not_repo_vars

\* __init__, line 92: reading self.remote_name before it was assigned is an
\* AttributeError, raised before 'git config' runs
FindRemoteUrl ==
    /\ repo_pc = "find_remote_url"
    /\ IF "remote_name" \notin repo_attrs
       THEN /\ Raise("AttributeError", <<"remote_name">>)
            /\ UNCHANGED <<repo, repo_attrs, calls>>
       ELSE /\ calls' = Append(calls, "git config")
            /\ repo' = [repo EXCEPT !.remote_url = _find_remote_url(env)]
            /\ repo_attrs' = repo_attrs \cup {"remote_url"}
            /\ repo_pc' = "has_ref"
            /\ UNCHANGED <<raised, message>>
    /\ UNCHANGED <<env, tmp_exists, workspace, del_calls, del_raised,
                   explicit_dels>>
    /\ UNCHANGED not_repo_vars

\* __init__, lines 94-98: the ref query; a failing 'git ls-remote' leaves
\* as check_output's CalledProcessError
HasRefOnRemote ==
    /\ repo_pc = "has_ref"
    /\ calls' = Append(calls, "git ls-remote")
    /\ IF ~env.ls_ok
       THEN Raise("CalledProcessError", <<"ls-remote">>)
       ELSE IF _has_ref_on_remote(repo.ref[1], env.reflist)
       THEN /\ repo_pc' = "clone"
            /\ UNCHANGED <<raised, message>>
       ELSE Raise("RefNotFoundError", <<"Tag or branch">> \o repo.ref[1])
    /\ UNCHANGED <<env, repo, repo_attrs, tmp_exists, workspace, del_calls, del_raised,
                   explicit_dels>>
    /\ UNCHANGED not_repo_vars

\* the CalledProcessError of 'git clone', let through as it is
clone_error_raw(output) == [exc |-> "CalledProcessError", msg |-> output]

\* _clone_to_tmp, lines 158-160: what is raised for a clone command that
\* exits non-zero with this output (stdout and stderr together)
clone_error(output) == [exc |-> "Git2JSSError", msg |-> output]

\* GitRepo._clone_to_tmp
_clone_to_tmp ==
    /\ repo_pc = "clone"
    /\ calls' = Append(calls, "git clone")
    /\ IF env.clone_ok /\ IsBranchOrTag(repo.ref[1], env.reflist)
       THEN /\ workspace' = ClonedFiles
            /\ repo_pc' = "created"
            /\ UNCHANGED <<raised, message>>
       ELSE /\ Raise(clone_error(env.clone_output).exc,
                     clone_error(env.clone_output).msg)
            /\ UNCHANGED workspace
    /\ UNCHANGED <<env, repo, repo_attrs, tmp_exists, del_calls, del_raised,
                   explicit_dels>>
    /\ UNCHANGED not_repo_vars

MaxExplicitDels == 2

\* the body of __del__ with the os.path.exists test left out: shutil.rmtree
\* of a directory that is gone raises OSError
del_tmp_dir_no_exists_test(attrs, r, exists) ==
    IF "tmp_dir" \notin attrs THEN [exc |-> "AttributeError", exists |-> exists]
    ELSE IF r.tmp_dir = None THEN [exc |-> "", exists |-> exists]
    ELSE IF exists THEN [exc |-> "", exists |-> FALSE]
    ELSE [exc |-> "OSError", exists |-> exists]

\* the body of GitRepo.__del__: the exception that leaves it and whether the
\* directory is on disk afterwards.  self.tmp_dir is unassigned when
\* __init__ raised ParameterError.
del_tmp_dir(attrs, r, exists) ==
    IF "tmp_dir" \notin attrs THEN [exc |-> "AttributeError", exists |-> exists]
    ELSE IF r.tmp_dir # None /\ exists THEN [exc |-> "", exists |-> FALSE]
    ELSE [exc |-> "", exists |-> exists]

\* GitRepo.__del__, run when the last reference to the instance goes
\* (after __init__ returned or raised).  self.tmp_dir is unassigned when
\* __init__ raised ParameterError: the AttributeError is ignored.
__del__ ==
    /\ repo_pc \in {"created", "raised"}
    /\ del_calls' = del_calls + 1
    /\ LET r == del_tmp_dir(repo_attrs, repo, tmp_exists)
       IN /\ del_raised' = r.exc
          /\ tmp_exists' = r.exists
          /\ workspace' = IF r.exists THEN workspace ELSE {}
    /\ repo_pc' = "deleted"
    /\ UNCHANGED <<env, repo, repo_attrs, raised, message, calls, explicit_dels>>
    /\ UNCHANGED not_repo_vars

\* GitRepo.__del__ called by the holder of a created instance, which stays
\* alive: an exception of the body reaches the caller
ExplicitDel ==
    /\ repo_pc = "created"
    /\ explicit_dels < MaxExplicitDels
    /\ explicit_dels' = explicit_dels + 1
    /\ LET r == del_tmp_dir(repo_attrs, repo, tmp_exists)
       IN /\ del_raised' = r.exc
          /\ tmp_exists' = r.exists
          /\ workspace' = IF r.exists THEN workspace ELSE {}
    /\ UNCHANGED <<env, repo, repo_attrs, repo_pc, raised, message, calls, del_calls>>
    /\ UNCHANGED not_repo_vars

\* The interpreter ends.  __del__ is the only release of tmp_dir, and Python
\* does not promise to run it for an instance that is still referenced then
\* (by a traceback, a fixture, a module global).
InterpreterExit ==
    /\ repo_pc \in {"created", "raised", "deleted"}
    /\ repo_pc' = "exited"
    /\ UNCHANGED <<env, repo, repo_attrs, tmp_exists, workspace,
                   raised, message, calls, del_calls, del_raised, explicit_dels>>
    /\ UNCHANGED not_repo_vars

---------------------------------------------------------------------------
(* Texts of the sync objects: sequences of one character strings *)

\* code points of the characters the texts are made of
Ord ==
    ("@" :> 64) @@ ("{" :> 123) @@ ("}" :> 125) @@ (" " :> 32) @@ ("/" :> 47) @@
    (":" :> 58) @@ ("_" :> 95) @@ ("1" :> 49) @@
    ("A" :> 65) @@ ("E" :> 69) @@ ("G" :> 71) @@ ("H" :> 72) @@ ("L" :> 76) @@
    ("O" :> 79) @@ ("P" :> 80) @@ ("R" :> 82) @@ ("S" :> 83) @@ ("T" :> 84) @@
    ("U" :> 85) @@ ("D" :> 68) @@ ("I" :> 73) @@ ("N" :> 78) @@ ("V" :> 86) @@
    ("a" :> 97) @@ ("b" :> 98) @@ ("c" :> 99) @@ ("d" :> 100) @@ ("h" :> 104) @@
    ("n" :> 110) @@ ("o" :> 111) @@ ("r" :> 114) @@ ("t" :> 116) @@ ("u" :> 117) @@ ("v" :> 118) @@
    ("x" :> 120) @@ ("y" :> 121) @@ ("." :> 46) @@ ("l" :> 108) @@
    ("p" :> 112) @@ ("s" :> 115) @@ ("\"" :> 34) @@
    ("e_acute" :> 233)

\* unicode.encode('utf-8') of one character
Utf8Char(c) ==
    LET cp == Ord[c]
    IN IF cp < 128 THEN <<cp>>
       ELSE IF cp < 2048 THEN <<192 + (cp \div 64), 128 + (cp % 64)>>
       ELSE <<224 + (cp \div 4096), 128 + ((cp \div 64) % 64), 128 + (cp % 64)>>

RECURSIVE Utf8(_)
Utf8(text) ==
    IF text = << >> THEN << >> ELSE Utf8Char(Head(text)) \o Utf8(Tail(text))

B64Alphabet ==
    <<"A", "B", "C", "D", "E", "F", "G", "H", "I", "J", "K", "L", "M",
      "N", "O", "P", "Q", "R", "S", "T", "U", "V", "W", "X", "Y", "Z",
      "a", "b", "c", "d", "e", "f", "g", "h", "i", "j", "k", "l", "m",
      "n", "o", "p", "q", "r", "s", "t", "u", "v", "w", "x", "y", "z",
      "0", "1", "2", "3", "4", "5", "6", "7", "8", "9", "+", "/">>

\* base64.b64encode of a sequence of bytes
RECURSIVE b64encode(_)
b64encode(bytes) ==
    LET c(n) == B64Alphabet[n + 1]
    IN CASE Len(bytes) = 0 -> << >>
         [] Len(bytes) = 1 ->
              <<c(bytes[1] \div 4), c((bytes[1] % 4) * 16), "=", "=">>
         [] Len(bytes) = 2 ->
              <<c(bytes[1] \div 4),
                c((bytes[1] % 4) * 16 + (bytes[2] \div 16)),
                c((bytes[2] % 16) * 4), "=">>
         [] OTHER ->
              <<c(bytes[1] \div 4),
                c((bytes[1] % 4) * 16 + (bytes[2] \div 16)),
                c((bytes[2] % 16) * 4 + (bytes[3] \div 64)),
                c(bytes[3] % 64)>>
              \o b64encode(SubSeq(bytes, 4, Len(bytes)))

---------------------------------------------------------------------------
(* string.Template with delimiter '@@' *)

\* the identifier pattern [_a-z][_a-z0-9]* matched without re.IGNORECASE
IdStartLowerCase ==
    {"_", "a", "b", "c", "d", "h", "l", "n", "o", "p", "r", "s", "t", "u", "v", "x", "y"}

\* first characters of an identifier: [_a-z], case ignored
IdStart == {"_", "A", "D", "E", "G", "H", "I", "L", "N", "O", "P", "R", "S", "T",
            "U", "V",
            "a", "b", "c", "d", "h", "l", "n", "o", "p", "r", "s", "t", "u", "v", "x",
            "y"}
IdChars == IdStart \cup {"1"}

\* number of identifier characters of text from position i on
RECURSIVE IdRun(_, _)
IdRun(text, i) ==
    IF i <= Len(text) /\ text[i] \in IdChars THEN 1 + IdRun(text, i + 1) ELSE 0

At(text, i) == IF i >= 1 /\ i <= Len(text) THEN text[i] ELSE ""

\* Template.safe_substitute: the pattern's alternatives in order (escaped,
\* named, braced, invalid), scanning from position i
RECURSIVE safe_substitute(_, _, _)
safe_substitute(text, i, mapping) ==
    IF i > Len(text) THEN << >>
    ELSE IF ~(At(text, i) = "@" /\ At(text, i + 1) = "@")
    THEN <<text[i]>> \o safe_substitute(text, i + 1, mapping)
    ELSE LET j == i + 2
             n == IdRun(text, j)
             m == IdRun(text, j + 1)
         IN IF At(text, j) = "@" /\ At(text, j + 1) = "@"
            THEN <<"@", "@">> \o safe_substitute(text, j + 2, mapping)
            ELSE IF At(text, j) \in IdStart
            THEN (IF SubSeq(text, j, j + n - 1) \in DOMAIN mapping
                  THEN mapping[SubSeq(text, j, j + n - 1)]
                  ELSE SubSeq(text, i, j + n - 1))
                 \o safe_substitute(text, j + n, mapping)
            ELSE IF At(text, j) = "{" /\ At(text, j + 1) \in IdStart
                    /\ At(text, j + 1 + m) = "}"
            THEN (IF SubSeq(text, j + 1, j + m) \in DOMAIN mapping
                  THEN mapping[SubSeq(text, j + 1, j + m)]
                  ELSE SubSeq(text, i, j + 1 + m))
                 \o safe_substitute(text, j + 2 + m, mapping)
            ELSE <<"@", "@">> \o safe_substitute(text, j, mapping)

\* the two mappings looked up in the other order: data wins
MultimapDataFirst(kws, data) ==
    [k \in DOMAIN kws \cup DOMAIN data |->
        IF k \in DOMAIN data THEN data[k] ELSE kws[k]]

\* safe_substitute(data, **kwargs): a keyword wins over the same key of data
Multimap(kws, data) ==
    [k \in DOMAIN kws \cup DOMAIN data |->
        IF k \in DOMAIN kws THEN kws[k] ELSE data[k]]

\* a handle on an empty file, and an object without elements
NoHandle == [content |-> << >>, pos |-> 0]
NoElements == [e \in {} |-> << >>]

\* handle.read(): the text from the handle's position to the end
Read(h) == SubSeq(h.content, h.pos + 1, Len(h.content))
AtEnd(h) == [h EXCEPT !.pos = Len(h.content)]

\* processors.template_file(handle, data, **kwargs)
template_file(handle, data, kwargs) ==
    safe_substitute(Read(handle), 1, Multimap(kwargs, data))

---------------------------------------------------------------------------
(* template_file called on its own: the inputs.  The text of the file is   *)
(* made of pieces: a literal, or the delimiter followed by an identifier.  *)

MaxPieces == 3

Lit(chars) == [kind |-> "literal", chars |-> chars]
Placeholder(id) == [kind |-> "placeholder", chars |-> id]

\* literals start with a character that cannot continue an identifier
Pieces ==
    {Lit(<<" ">>), Lit(<<"@">>),
     Placeholder(<<"U", "S", "E", "R">>), Placeholder(<<"L", "O", "G">>),
     Placeholder(<<"x">>)}

PieceSeqs == UNION {[1..n -> Pieces] : n \in 0..MaxPieces}

\* the characters of a piece, and of a sequence of pieces
PieceText(piece) ==
    IF piece.kind = "literal" THEN piece.chars ELSE <<"@", "@">> \o piece.chars

RECURSIVE TextOf(_)
TextOf(pieces) ==
    IF pieces = << >> THEN << >>
    ELSE PieceText(Head(pieces)) \o TextOf(Tail(pieces))

\* the mapping (file metadata) and the keyword arguments of the call
TplData ==
    {NoElements,
     (<<"L", "O", "G">> :> <<"l">>),
     (<<"L", "O", "G">> :> <<"l">>) @@ (<<"U", "S", "E", "R">> :> <<"m">>)}
TplKwargs == {NoElements, (<<"U", "S", "E", "R">> :> <<"k">>)}

TplEnvs == [text : PieceSeqs, data : TplData, kwargs : TplKwargs]

\* template_file(handle, data, **kwargs) on a freshly opened handle
TemplateFile ==
    /\ tpl_pc = "new"
    /\ tpl_out' = Some(template_file(tpl_handle, tpl_env.data, tpl_env.kwargs))
    /\ tpl_handle' = AtEnd(tpl_handle)
    /\ tpl_pc' = "done"
    /\ UNCHANGED tpl_env
    /\ UNCHANGED not_tpl_vars

---------------------------------------------------------------------------
(* GitRepo: the file queries.  A path is the sequence of its '/'-separated *)
(* segments; one that starts with '/' has an empty first segment.          *)

\* os.path.join(a, b)
Join(a, b) == IF Len(b) > 1 /\ b[1] = "" THEN b ELSE a \o b

\* os.path.abspath of an absolute path: '' and '.' segments go, '..' drops
\* the segment before it (none at the root)
RECURSIVE Normalise(_, _)
Normalise(done, rest) ==
    IF rest = << >> THEN done
    ELSE LET seg == Head(rest)
         IN IF seg \in {"", "."} THEN Normalise(done, Tail(rest))
            ELSE IF seg = ".."
            THEN Normalise(IF done = << >> THEN done
                           ELSE SubSeq(done, 1, Len(done) - 1), Tail(rest))
            ELSE Normalise(Append(done, seg), Tail(rest))

abspath(path) == Normalise(<< >>, path)

\* has_file that looks the joined path up as it is written, '.' and '..'
\* segments not resolved
has_file_no_abspath(r, filename) ==
    LET NotEmpty(seg) == seg # ""
    IN SelectSeq(Join(r.tmp_dir, filename), NotEmpty) \in DOMAIN r.fs

\* GitRepo.has_file: os.path.isfile(os.path.abspath(os.path.join(tmp_dir, filename)))
has_file(r, filename) == abspath(Join(r.tmp_dir, filename)) \in DOMAIN r.fs

\* the text of a path
RECURSIVE PathText(_)
PathText(path) ==
    IF Len(path) <= 1 THEN path
    ELSE <<Head(path), "/">> \o PathText(Tail(path))

\* what 'git log' in tmp_dir prints for a file of the clone
GitLog(r, filename) == <<"c", ":">> \o PathText(abspath(Join(r.tmp_dir, filename)))
GitDate(r, filename) == <<"\"", "d", "\"">>
GitCommit(r, filename) == <<"h">>

K_VERSION == <<"V", "E", "R", "S", "I", "O", "N">>
K_ORIGIN == <<"O", "R", "I", "G", "I", "N">>
K_PATH == <<"P", "A", "T", "H">>
K_DATE == <<"D", "A", "T", "E">>
K_LOG == <<"L", "O", "G">>
K_USER == <<"U", "S", "E", "R">>

\* GitRepo._format_commit
_format_commit(r, filename) ==
    GitCommit(r, filename)
    \o <<" ", "o", "n", " ", "b", "r", "a", "n", "c", "h", ":", " ">>
    \o (IF r.branch = None THEN <<"N", "o", "n", "e">> ELSE r.branch[1])

\* GitRepo.file_info for a file the repo has
file_info(r, filename) ==
    (K_VERSION :> (IF r.tag # None /\ r.tag[1] # << >>
                   THEN r.tag[1] ELSE _format_commit(r, filename))) @@
    (K_ORIGIN :> r.remote_url) @@
    (K_PATH :> PathText(filename)) @@
    (K_DATE :> GitDate(r, filename)) @@
    (K_LOG :> GitLog(r, filename))

\* GitRepo.get_file for a file the repo has: a handle at the start
get_file(r, filename) ==
    [content |-> r.fs[abspath(Join(r.tmp_dir, filename))], pos |-> 0]

---------------------------------------------------------------------------
(* Sync objects: the inputs *)

MaxUpdates == 2
MaxSaves == 1

HttpNotFound == 404

TmpDir == <<"", "t">>
WorkspacePaths == {<<"t", "x">>, <<"t", "d", "x">>}
Contents ==
    {<< >>,
     <<"a", "e_acute">>,
     <<"@", "@", "U", "S", "E", "R", " ", "@", "@", "L", "O", "G">>}
FileSystems == UNION {[S -> Contents] : S \in SUBSET WorkspacePaths}

\* a created GitRepo, from a tag or from a branch
Repos ==
    {[tag |-> t[1], branch |-> t[2], remote_url |-> <<"u">>,
      tmp_dir |-> TmpDir, fs |-> f] :
        t \in {<<Some(<<"v">>), None>>, <<None, Some(<<"b">>)>>},
        f \in FileSystems}

\* the JSS: the names of the objects it has, the HTTP status of a failing
\* request (0: requests work) and the user of the connection
JSSs ==
    [names : SUBSET {<<"n">>, <<"x">>}, error : {0, 401, 500},
     user : {<<"b", "o", "b">>}]

Variants == {"Script", "ComputerExtensionAttribute"}

SyncEnvs ==
    [variant : Variants,
     source_file : {<<"x">>, <<"d", "x">>, <<"y">>},
     target : {None, Some(<<"n">>)},
     should_template : BOOLEAN,
     repo : Repos,
     jss : JSSs]

NoExc == [exc |-> "", status |-> 0]
NoObj ==
    [source_name |-> << >>, target_name |-> << >>, target_type |-> "",
     source_file |-> NoHandle]

\* the elements of an object as the JSS returns it
Loaded(variant) ==
    IF variant = "Script"
    THEN [notes |-> <<"o">>, script_contents |-> <<"o">>,
          script_contents_encoded |-> b64encode(Utf8(<<"o">>))]
    ELSE [description |-> <<"o">>, mac_script |-> <<"o">>]

\* no child is removed
RemoveNothing(elements, name) == elements

\* Element.remove of a child
Remove(elements, name) == [k \in DOMAIN elements \ {name} |-> elements[k]]

---------------------------------------------------------------------------
(* Sync objects: the methods *)

\* objects.JSSObject._load_target_object: every JSSGetError is raised again
_load_target_object_reraise(jss, target_name) ==
    IF jss.error # 0 THEN [exc |-> "JSSGetError", status |-> jss.error]
    ELSE IF target_name \notin jss.names
    THEN [exc |-> "JSSGetError", status |-> HttpNotFound]
    ELSE NoExc

\* processors.JSSObject._load_target_object: the exception that leaves it.
\* The JSS answers a name it does not have with status 404.
_load_target_object(jss, target_name) ==
    LET err == IF jss.error # 0 THEN jss.error
               ELSE IF target_name \notin jss.names THEN HttpNotFound
               ELSE 0
    IN IF err = 0 THEN NoExc
       ELSE IF err = HttpNotFound
       THEN [exc |-> "TargetNotFoundError", status |-> 0]
       ELSE [exc |-> "JSSGetError", status |-> err]

\* os.path.split(source_file)[1]: the text after the last '/'
SourceName(source_file) == <<source_file[Len(source_file)]>>

\* a target name that is always the name of the source
TargetNameFromSource(target, source_name) == source_name

\* target or self.source_name
TargetName(target, source_name) ==
    IF target # None /\ target[1] # << >> THEN target[1] ELSE source_name

\* JSSObject._load_source_file: the exception that leaves it, which is the
\* FileNotFoundError of get_file (path_to_file), raised again as it is
_load_source_file(r, source_name) ==
    IF has_file(r, source_name) THEN NoExc
    ELSE [exc |-> "FileNotFoundError", status |-> 0]

\* JSSObject.__init__ (with Script.__init__ / ComputerExtensionAttribute.__init__)
JSSObjectInit ==
    /\ sync_pc = "new"
    /\ LET source_name == SourceName(senv.source_file)
           target_name == TargetName(senv.target, source_name)
           exc == _load_target_object(senv.jss, target_name)
           named == [NoObj EXCEPT !.source_name = source_name,
                                  !.target_name = target_name,
                                  !.target_type = senv.variant]
       IN IF exc # NoExc
          THEN /\ obj' = named
               /\ sync_raised' = exc
               /\ sync_pc' = "failed"
               /\ UNCHANGED target_object
          ELSE /\ target_object' = Loaded(senv.variant)
               /\ LET src_exc == _load_source_file(senv.repo, source_name)
                  IN IF src_exc = NoExc
                     THEN /\ obj' = [named EXCEPT
                                       !.source_file =
                                           get_file(senv.repo, source_name)]
                          /\ sync_pc' = "opened"
                          /\ UNCHANGED sync_raised
                     ELSE /\ obj' = named
                          /\ sync_raised' = src_exc
                          /\ sync_pc' = "failed"
    /\ UNCHANGED <<senv, updates, store, saves>>
    /\ UNCHANGED not_sync_vars

\* Script.update; the caller passes senv.should_template on every call
ScriptUpdate ==
    /\ sync_pc = "opened"
    /\ obj.target_type = "Script"
    /\ updates < MaxUpdates
    /\ updates' = updates + 1
    /\ LET info == file_info(senv.repo, obj.source_name)
            text == IF senv.should_template
                    THEN template_file(obj.source_file, info,
                                       (K_USER :> senv.jss.user))
                    ELSE Read(obj.source_file)
            written == [target_object EXCEPT
                          !.notes = info[K_LOG],
                          !.script_contents_encoded = b64encode(Utf8(text))]
        IN /\ obj' = [obj EXCEPT !.source_file = AtEnd(obj.source_file)]
           /\ IF "script_contents" \in DOMAIN target_object
              THEN /\ target_object' = Remove(written, "script_contents")
                   /\ UNCHANGED <<sync_raised, sync_pc>>
              ELSE /\ target_object' = written
                   /\ sync_raised' = [exc |-> "ValueError", status |-> 0]
                   /\ sync_pc' = "failed"
    /\ UNCHANGED <<senv, store, saves>>
    /\ UNCHANGED not_sync_vars

\* ComputerExtensionAttribute.update; the caller passes senv.should_template
\* on every call
ComputerExtensionAttributeUpdate ==
    /\ sync_pc = "opened"
    /\ obj.target_type = "ComputerExtensionAttribute"
    /\ updates < MaxUpdates
    /\ updates' = updates + 1
    /\ LET info == file_info(senv.repo, obj.source_name)
            output == IF senv.should_template
                      THEN template_file(obj.source_file, info,
                                         (K_USER :> senv.jss.user))
                      ELSE Read(obj.source_file)
        IN /\ obj' = [obj EXCEPT !.source_file = AtEnd(obj.source_file)]
           /\ target_object' = [target_object EXCEPT
                                  !.description = info[K_LOG],
                                  !.mac_script = output]
    /\ UNCHANGED <<senv, sync_raised, sync_pc, store, saves>>
    /\ UNCHANGED not_sync_vars

\* JSSObject.save: target_object.save() sends the elements, or raises
JSSObjectSave ==
    /\ sync_pc = "opened"
    /\ saves < MaxSaves
    /\ \E ok \in BOOLEAN :
        IF ok
        THEN /\ store' = target_object
             /\ saves' = saves + 1
             /\ UNCHANGED <<sync_raised, sync_pc>>
        ELSE /\ sync_raised' = [exc |-> "JSSPutError", status |-> 500]
             /\ sync_pc' = "failed"
             /\ UNCHANGED <<store, saves>>
    /\ UNCHANGED <<senv, obj, target_object, updates>>
    /\ UNCHANGED not_sync_vars

---------------------------------------------------------------------------
(* main(): the inputs.  File names, tags and object names are texts. *)

A_SH == <<"a", ".", "s", "h">>
B_PY == <<"b", ".", "p", "y">>
HIDDEN_SH == <<".", "h", ".", "s", "h">>
NOTES_TXT == <<"n", ".", "t", "x", "t">>
TAG_V1 == <<"v", "1">>

\* sys.argv as argparse stores it, before the checks of _get_args
Argvs ==
    [jss_info : BOOLEAN,
     tag : {None, Some(TAG_V1)},
     script_name : {None, Some(<<"n">>)},
     create_tag : BOOLEAN,
     script_file : {None, Some(A_SH), Some(B_PY)},
     push_all : BOOLEAN]

\* dircache.listdir("."): the sorted names of the current directory
Listings == {<<HIDDEN_SH, A_SH, B_PY, NOTES_TXT>>, <<A_SH>>}

\* the files of the tag, as cloned into TMPDIR
Checkouts ==
    {(A_SH :> <<"@", "@", "U", "S", "E", "R">>) @@ (B_PY :> <<"a">>),
     (A_SH :> <<"a">>)}

MainArgs ==
    [argv : Argvs,
     local_tags : {{}, {TAG_V1}},
     origin : {<<"u">>},
     cwd : Listings,
     checkout : Checkouts,
     jss_names : {{}, {A_SH, B_PY}, {B_PY}, {<<"n">>}},
     jss_error : {0, 500},
     jss_user : {<<"b", "o", "b">>}]

NoOptions ==
    [jss_info |-> FALSE, tag |-> None, script_name |-> None, create_tag |-> FALSE,
     script_file |-> None, push_all |-> FALSE]

---------------------------------------------------------------------------
(* main(): the functions of git2jss/__init__.py *)

\* _get_args: parser.error (exit status 2) or the options.  --file and
\* --all are a mutually exclusive group of the parser.
_get_args(argv) ==
    IF argv.script_file # None /\ argv.push_all
    THEN [error |-> TRUE, options |-> argv]
    ELSE LET opts == IF argv.push_all /\ argv.script_name # None
                     THEN [argv EXCEPT !.script_name = None]
                     ELSE argv
         IN IF ~opts.jss_info /\ opts.tag = None
            THEN [error |-> TRUE, options |-> opts]
            ELSE IF opts.tag # None /\ ~(opts.script_file # None \/ opts.push_all)
            THEN [error |-> TRUE, options |-> opts]
            ELSE [error |-> FALSE, options |-> opts]

\* tag_exists: the tag is a line of the output of 'git tag'
tag_exists(tag, local_tags) == tag \in (local_tags \cup {<< >>})

\* re.match(r'^\.', x)
StartsWithDot(x) == Len(x) >= 1 /\ x[1] = "."

\* re.match(r'.*\.(sh|py|pl)$', x)
HasScriptSuffix(x) ==
    /\ Len(x) >= 3
    /\ SubSeq(x, Len(x) - 2, Len(x)) \in
          {<<".", "s", "h">>, <<".", "p", "y">>, <<".", "p", "l">>}

\* main, lines 170-175: the list of files to handle
ListFiles(opts, m) ==
    IF opts.push_all
    THEN LET keep(x) == ~StartsWithDot(x) /\ HasScriptSuffix(x)
         IN SelectSeq(m.cwd, keep)
    ELSE <<opts.script_file[1]>>

\* get_git_info for a file of the checkout
get_git_info(m, script_file, script_tag) ==
    (K_VERSION :> script_tag) @@
    (K_ORIGIN :> m.origin) @@
    (K_PATH :> script_file) @@
    (K_DATE :> <<"\"", "d", "\"">>) @@
    (K_USER :> m.jss_user) @@
    (K_LOG :> <<"c", ":">> \o script_file)

\* template_script
template_script(text, script_info) == safe_substitute(text, 1, script_info)

\* update_script with should_template left at its default
update_script(jss_script, content, script_info) ==
    Remove([jss_script EXCEPT
              !.notes = script_info[K_LOG],
              !.script_contents_encoded =
                  b64encode(Utf8(template_script(content, script_info)))],
           "script_contents")

\* leaving main() outside the try statement
Leave(status) ==
    /\ exit_status' = status
    /\ pc' = "done"

\* main, line 129 and make_temp_dir
make_temp_dir ==
    /\ pc = "start"
    /\ TMPDIR' = Some("tmp")
    /\ tmpdir_exists' = TRUE
    /\ pc' = "get_args"
    /\ UNCHANGED <<margs, options, files, pending, exit_status, cleanups, events,
                   jss_saved>>
    /\ UNCHANGED not_main_vars

\* main, line 131
GetArgs ==
    /\ pc = "get_args"
    /\ LET r == _get_args(margs.argv)
       IN IF r.error
          THEN Leave("SystemExit(2)") /\ UNCHANGED options
          ELSE /\ options' = r.options
               /\ pc' = "jss_info"
               /\ UNCHANGED exit_status
    /\ UNCHANGED <<margs, TMPDIR, tmpdir_exists, files, pending, cleanups, events,
                   jss_saved>>
    /\ UNCHANGED not_main_vars

\* main with the --jss-info test placed after the test of the tag
JssInfoAfterTagCheck ==
    /\ pc = "jss_info"
    /\ IF options.jss_info
       THEN /\ events' = events \o << <<"git tag", << >> >>, <<"print info", << >> >> >>
            /\ Leave("SystemExit(0)")
       ELSE /\ pc' = "tag"
            /\ UNCHANGED <<events, exit_status>>
    /\ UNCHANGED <<margs, options, TMPDIR, tmpdir_exists, files, pending, cleanups,
                   jss_saved>>
    /\ UNCHANGED not_main_vars

\* main, lines 133-156: the JSS object is built, and --jss-info ends the run
JssInfo ==
    /\ pc = "jss_info"
    /\ IF options.jss_info
       THEN /\ events' = Append(events, <<"print info", << >> >>)
            /\ Leave("SystemExit(0)")
       ELSE /\ pc' = "tag"
            /\ UNCHANGED <<events, exit_status>>
    /\ UNCHANGED <<margs, options, TMPDIR, tmpdir_exists, files, pending, cleanups,
                   jss_saved>>
    /\ UNCHANGED not_main_vars

\* main, lines 158-165, with create_tag: 'git tag -a' and 'git push' are
\* check_call, a failing push leaves as CalledProcessError
CheckTag ==
    /\ pc = "tag"
    /\ IF tag_exists(options.tag[1], margs.local_tags)
       THEN /\ events' = Append(events, <<"git tag", << >> >>)
            /\ pc' = "try"
            /\ UNCHANGED exit_status
       ELSE IF options.create_tag
       THEN \E pushed \in BOOLEAN :
               /\ events' = events \o << <<"git tag", << >> >>,
                                         <<"git tag -a", options.tag[1]>>,
                                         <<"git push", options.tag[1]>> >>
               /\ IF pushed
                  THEN pc' = "try" /\ UNCHANGED exit_status
                  ELSE Leave("CalledProcessError")
       ELSE /\ events' = Append(events, <<"git tag", << >> >>)
            /\ Leave("Git2JSSError")
    /\ UNCHANGED <<margs, options, TMPDIR, tmpdir_exists, files, pending, cleanups,
                   jss_saved>>
    /\ UNCHANGED not_main_vars

\* main, line 168, and checkout_tag: no origin URL leaves as
\* CalledProcessError, a failed clone as Git2JSSError
checkout_tag ==
    /\ pc = "try"
    /\ \E result \in {"ok", "CalledProcessError", "Git2JSSError"} :
         /\ events' = IF result = "CalledProcessError"
                      THEN Append(events, <<"git config", << >> >>)
                      ELSE events \o << <<"git config", << >> >>,
                                        <<"git clone", options.tag[1]>> >>
         /\ IF result = "ok"
            THEN pc' = "enumerate" /\ UNCHANGED pending
            ELSE pc' = "finally" /\ pending' = result
    /\ UNCHANGED <<margs, options, TMPDIR, tmpdir_exists, files, exit_status,
                   cleanups, jss_saved>>
    /\ UNCHANGED not_main_vars

\* main, lines 170-175
EnumerateFiles ==
    /\ pc = "enumerate"
    /\ files' = ListFiles(options, margs)
    /\ pc' = "loop"
    /\ UNCHANGED <<margs, options, TMPDIR, tmpdir_exists, pending, exit_status,
                   cleanups, events, jss_saved>>
    /\ UNCHANGED not_main_vars

\* a failed load that is raised to main() instead of skipped
skip_script_raising(jss_name) ==
    /\ events' = Append(events, <<"load failed", jss_name>>)
    /\ pending' = "JSSGetError"
    /\ pc' = "finally"
    /\ UNCHANGED <<files, jss_saved>>

\* process_script, lines 212-214: except JSSGetError: the file is skipped
\* and the loop of main() goes on
skip_script(jss_name) ==
    /\ events' = Append(events, <<"load failed", jss_name>>)
    /\ files' = Tail(files)
    /\ UNCHANGED <<pc, pending, jss_saved>>

\* the calls for a loaded script with save_script before update_script
process_steps_save_first(jss_name, script) ==
    << <<"load", jss_name>>, <<"save", jss_name>>, <<"git log", script>>,
       <<"update", jss_name>> >>

\* process_script, lines 211 and 216-218: the calls made for a script that
\* loads, in their order
process_steps(jss_name, script) ==
    << <<"load", jss_name>>, <<"git log", script>>, <<"update", jss_name>>,
       <<"save", jss_name>> >>

\* process_script for the next file of the loop (main, lines 177-178):
\* load_script, get_git_info, update_script, save_script
process_script ==
    /\ pc = "loop"
    /\ files # << >>
    /\ LET script == Head(files)
           jss_name == IF options.script_name = None THEN script
                       ELSE options.script_name[1]
           loadable == margs.jss_error = 0 /\ jss_name \in margs.jss_names
       IN IF ~loadable
          THEN \* except jss.exceptions.JSSGetError: skip the file
               skip_script(jss_name)
          ELSE IF script \notin DOMAIN margs.checkout
          THEN \* 'git log' on a path the checkout does not have
               LET steps == process_steps(jss_name, script)
                   k == CHOOSE i \in 1..Len(steps) : steps[i][1] = "git log"
               IN
               /\ events' = events \o SubSeq(steps, 1, k)
               /\ pending' = "CalledProcessError"
               /\ pc' = "finally"
               /\ UNCHANGED <<files, jss_saved>>
          ELSE \E saved \in BOOLEAN :
                 LET info == get_git_info(margs, script, options.tag[1])
                     sent == update_script(Loaded("Script"),
                                           margs.checkout[script], info)
                 IN /\ events' = events \o process_steps(jss_name, script)
                    /\ IF saved
                       THEN /\ jss_saved' = (jss_name :> sent) @@ jss_saved
                            /\ files' = Tail(files)
                            /\ UNCHANGED <<pc, pending>>
                       ELSE /\ pending' = "JSSPutError"
                            /\ pc' = "finally"
                            /\ UNCHANGED <<files, jss_saved>>
    /\ UNCHANGED <<margs, options, TMPDIR, tmpdir_exists, exit_status, cleanups>>
    /\ UNCHANGED not_main_vars

\* what follows the try block without the finally clause: cleanup_tmp only
\* when no exception travels
CleanupUnlessRaised ==
    /\ \/ pc = "finally"
       \/ pc = "loop" /\ files = << >>
    /\ IF pending = ""
       THEN /\ cleanups' = cleanups + 1
            /\ tmpdir_exists' = FALSE
            /\ Leave("return")
       ELSE /\ Leave(pending)
            /\ UNCHANGED <<cleanups, tmpdir_exists>>
    /\ UNCHANGED <<margs, options, TMPDIR, files, pending, events, jss_saved>>
    /\ UNCHANGED not_main_vars

\* main, lines 180-184, and cleanup_tmp: the except clause raises the
\* exception again, the finally clause removes TMPDIR
Finally ==
    /\ \/ pc = "finally"
       \/ pc = "loop" /\ files = << >>
    /\ cleanups' = cleanups + 1
    /\ tmpdir_exists' = FALSE
    /\ Leave(IF pending = "" THEN "return" ELSE pending)
    /\ UNCHANGED <<margs, options, TMPDIR, files, pending, events, jss_saved>>
    /\ UNCHANGED not_main_vars

---------------------------------------------------------------------------
(* The file queries called on a created GitRepo: the inputs *)

MaxSegments == 3

\* segments of a path argument
Segments == {"x", "d", ".", ".."}

RelativePaths == UNION {[1..n -> Segments] : n \in 1..MaxSegments}

\* a path argument: relative, or starting with '/'
QueryPaths ==
    RelativePaths \cup {<<"">> \o p : p \in {q \in RelativePaths : Len(q) < MaxSegments}}

\* regular files of the disk: two of the clone in /t, and /x outside it
OutsidePaths == {<<"x">>}
Disks == UNION {[S -> {<<"a">>}] : S \in SUBSET (WorkspacePaths \cup OutsidePaths)}

QueryRepos ==
    {[tag |-> t[1], branch |-> t[2], remote_url |-> <<"u">>,
      tmp_dir |-> TmpDir, fs |-> f] :
        t \in {<<Some(<<"v">>), None>>, <<None, Some(<<"b">>)>>},
        f \in Disks}

QueryEnvs == [repo : QueryRepos, path : QueryPaths]

NoResult == [exc |-> "", value |-> None]

---------------------------------------------------------------------------
(* The file queries: the methods as called *)

\* the path is the same as, or below, the directory
IsUnder(path, dir) ==
    Len(path) >= Len(dir) /\ SubSeq(path, 1, Len(dir)) = dir

\* 'git log ... filename' run in tmp_dir: git refuses a path outside the
\* repository and check_output raises CalledProcessError
GitLogFails(r, filename) ==
    ~IsUnder(abspath(Join(r.tmp_dir, filename)), abspath(r.tmp_dir))

\* GitRepo.path_to_file
path_to_file(r, filename) ==
    LET path == Join(r.tmp_dir, filename)
    IN IF has_file(r, filename)
       THEN [exc |-> "", value |-> Some(abspath(path))]
       ELSE [exc |-> "FileNotFoundError", value |-> None]

\* GitRepo.get_file as called: io.open of path_to_file(filename)
GetFileCall(r, filename) ==
    LET path == path_to_file(r, filename)
    IN IF path.exc # "" THEN path
       ELSE [exc |-> "", value |-> Some(get_file(r, filename))]

\* GitRepo.file_info as called
FileInfoCall(r, filename) ==
    IF ~has_file(r, filename) THEN [exc |-> "FileNotFoundError", value |-> None]
    ELSE IF GitLogFails(r, filename)
    THEN [exc |-> "CalledProcessError", value |-> None]
    ELSE [exc |-> "", value |-> Some(file_info(r, filename))]

\* a call of GitRepo.has_file
HasFile ==
    /\ q_pc = "new"
    /\ q_op' = "has_file"
    /\ q_result' = [exc |-> "", value |-> Some(has_file(q_env.repo, q_env.path))]
    /\ q_pc' = "done"
    /\ UNCHANGED q_env
    /\ UNCHANGED not_q_vars

\* a call of GitRepo.path_to_file
PathToFile ==
    /\ q_pc = "new"
    /\ q_op' = "path_to_file"
    /\ q_result' = path_to_file(q_env.repo, q_env.path)
    /\ q_pc' = "done"
    /\ UNCHANGED q_env
    /\ UNCHANGED not_q_vars

\* a call of GitRepo.get_file
GetFile ==
    /\ q_pc = "new"
    /\ q_op' = "get_file"
    /\ q_result' = GetFileCall(q_env.repo, q_env.path)
    /\ q_pc' = "done"
    /\ UNCHANGED q_env
    /\ UNCHANGED not_q_vars

\* a call of GitRepo.file_info
FileInfo ==
    /\ q_pc = "new"
    /\ q_op' = "file_info"
    /\ q_result' = FileInfoCall(q_env.repo, q_env.path)
    /\ q_pc' = "done"
    /\ UNCHANGED q_env
    /\ UNCHANGED not_q_vars

---------------------------------------------------------------------------
(* Two runs that push to the same JSS object, their calls interleaved *)

Runs == {1, 2}

\* the content of the source file of a run and the git log of its workspace
RaceContents == {<<"a">>, <<"a", "e_acute">>}
RaceLogs == {<<"c", "1">>, <<"c", "2">>}

RaceEnvs ==
    [variant : Variants,
     run : [Runs -> [content : RaceContents, log : RaceLogs]]]

\* the object the JSS holds before the runs
HeldAtStart == [notes |-> <<"o">>, text |-> <<"o">>]

NoRun == [pc |-> "idle", target_object |-> NoElements, seen |-> 0, exc |-> ""]

\* the elements the JSS returns for the object it holds
Get(variant, held) ==
    IF variant = "Script"
    THEN [notes |-> held.notes, script_contents |-> held.text,
          script_contents_encoded |-> b64encode(Utf8(held.text))]
    ELSE [description |-> held.notes, mac_script |-> held.text]

\* base64 decoding, over the texts that are sent
b64decode(encoded) ==
    CHOOSE t \in RaceContents \cup {HeldAtStart.text} : b64encode(Utf8(t)) = encoded

\* the object the JSS holds after target_object.save() sent these elements
Put(variant, sent) ==
    IF variant = "Script"
    THEN [notes |-> sent.notes, text |-> b64decode(sent.script_contents_encoded)]
    ELSE [notes |-> sent.description, text |-> sent.mac_script]

\* the elements after update(should_template=False) wrote this log and text
UpdatedElements(variant, elements, log, text) ==
    IF variant = "Script"
    THEN Remove([elements EXCEPT !.notes = log,
                                 !.script_contents_encoded = b64encode(Utf8(text))],
                "script_contents")
    ELSE [elements EXCEPT !.description = log, !.mac_script = text]

\* JSSObject.__init__ of a run: _load_target_object gets the object as the
\* JSS holds it now
ConcurrentLoad(r) ==
    /\ runs[r].pc = "new"
    /\ runs' = [runs EXCEPT ![r] =
                  [@ EXCEPT !.pc = "loaded",
                            !.target_object = Get(race_env.variant, remote),
                            !.seen = Len(remote_saves)]]
    /\ UNCHANGED <<race_env, remote, remote_saves>>
    /\ UNCHANGED not_race_vars

\* update() of a run, on its own copy of the object
ConcurrentUpdate(r) ==
    /\ runs[r].pc = "loaded"
    /\ runs' = [runs EXCEPT ![r] =
                  [@ EXCEPT !.pc = "updated",
                            !.target_object =
                                UpdatedElements(race_env.variant, @,
                                                race_env.run[r].log,
                                                race_env.run[r].content)]]
    /\ UNCHANGED <<race_env, remote, remote_saves>>
    /\ UNCHANGED not_race_vars

\* a save that the JSS refuses when the object was saved since the load
ConcurrentSaveIfUnchanged(r) ==
    /\ runs[r].pc = "updated"
    /\ IF runs[r].seen = Len(remote_saves)
       THEN /\ remote' = Put(race_env.variant, runs[r].target_object)
            /\ remote_saves' = Append(remote_saves, r)
            /\ runs' = [runs EXCEPT ![r] = [@ EXCEPT !.pc = "saved"]]
       ELSE /\ runs' = [runs EXCEPT ![r] =
                          [@ EXCEPT !.pc = "failed", !.exc = "JSSPutError"]]
            /\ UNCHANGED <<remote, remote_saves>>
    /\ UNCHANGED race_env
    /\ UNCHANGED not_race_vars

\* save() of a run: target_object.save() sends the elements of the run's
\* copy; nothing is sent or compared that tells which state was loaded
ConcurrentSave(r) ==
    /\ runs[r].pc = "updated"
    /\ remote' = Put(race_env.variant, runs[r].target_object)
    /\ remote_saves' = Append(remote_saves, r)
    /\ runs' = [runs EXCEPT ![r] = [@ EXCEPT !.pc = "saved"]]
    /\ UNCHANGED race_env
    /\ UNCHANGED not_race_vars

---------------------------------------------------------------------------
(* The specifications: one per part, the other parts idle *)

RaceIdle ==
    /\ race_env = [variant |-> "",
                   run |-> [r \in Runs |-> [content |-> << >>, log |-> << >>]]]
    /\ runs = [r \in Runs |-> NoRun]
    /\ remote = [notes |-> << >>, text |-> << >>]
    /\ remote_saves = << >>

TplIdle ==
    /\ tpl_env = [text |-> << >>, data |-> NoElements, kwargs |-> NoElements]
    /\ tpl_handle = NoHandle
    /\ tpl_out = None
    /\ tpl_pc = "idle"

QueryIdle ==
    /\ q_env = [repo |-> [tag |-> None, branch |-> None, remote_url |-> << >>,
                          tmp_dir |-> TmpDir, fs |-> NoElements],
                path |-> << >>]
    /\ q_op = ""
    /\ q_result = NoResult
    /\ q_pc = "idle"

MainIdle ==
    /\ margs = [argv |-> NoOptions, local_tags |-> {}, origin |-> << >>,
                cwd |-> << >>, checkout |-> NoElements, jss_names |-> {},
                jss_error |-> 0, jss_user |-> << >>]
    /\ options = NoOptions
    /\ pc = "idle"
    /\ TMPDIR = None
    /\ tmpdir_exists = FALSE
    /\ files = << >>
    /\ pending = ""
    /\ exit_status = ""
    /\ cleanups = 0
    /\ events = << >>
    /\ jss_saved = NoElements

SyncIdle ==
    /\ senv = [variant |-> "", source_file |-> << >>, target |-> None,
               should_template |-> FALSE,
               repo |-> [tag |-> None, branch |-> None, remote_url |-> << >>,
                         tmp_dir |-> TmpDir, fs |-> NoElements],
               jss |-> [names |-> {}, error |-> 0, user |-> << >>]]
    /\ obj = NoObj
    /\ target_object = NoElements
    /\ sync_pc = "idle"
    /\ sync_raised = NoExc
    /\ updates = 0
    /\ store = NoElements
    /\ saves = 0

RepoIdle ==
    /\ env = [tag |-> None, branch |-> None,
              discover |-> [ok |-> TRUE, remotes |-> << >>, output |-> << >>],
              url |-> << >>, reflist |-> << >>, ls_ok |-> TRUE, clone_ok |-> TRUE,
              clone_output |-> << >>]
    /\ repo = NoRepo
    /\ repo_attrs = {}
    /\ repo_pc = "idle"
    /\ tmp_exists = FALSE
    /\ workspace = {}
    /\ raised = ""
    /\ message = << >>
    /\ calls = << >>
    /\ del_calls = 0
    /\ del_raised = ""
    /\ explicit_dels = 0

RepoInit ==
    /\ RaceIdle
    /\ TplIdle
    /\ QueryIdle
    /\ SyncIdle
    /\ MainIdle
    /\ env \in Envs
    /\ repo = NoRepo
    /\ repo_attrs = {}
    /\ repo_pc = "new"
    /\ tmp_exists = FALSE
    /\ workspace = {}
    /\ raised = ""
    /\ message = << >>
    /\ calls = << >>
    /\ del_calls = 0
    /\ del_raised = ""
    /\ explicit_dels = 0

RepoNext ==
    \/ GitRepoInit
    \/ FindRemoteName
    \/ FindRemoteUrl
    \/ HasRefOnRemote
    \/ _clone_to_tmp
    \/ __del__
    \/ ExplicitDel
    \/ InterpreterExit

SpecRepo == RepoInit /\ [][RepoNext]_vars

SyncInit ==
    /\ RaceIdle
    /\ TplIdle
    /\ QueryIdle
    /\ RepoIdle
    /\ MainIdle
    /\ senv \in SyncEnvs
    /\ obj = NoObj
    /\ target_object = NoElements
    /\ sync_pc = "new"
    /\ sync_raised = NoExc
    /\ updates = 0
    /\ store = NoElements
    /\ saves = 0

SyncNext ==
    \/ JSSObjectInit
    \/ ScriptUpdate
    \/ ComputerExtensionAttributeUpdate
    \/ JSSObjectSave

SpecSync == SyncInit /\ [][SyncNext]_vars

TplInit ==
    /\ RaceIdle
    /\ QueryIdle
    /\ RepoIdle
    /\ SyncIdle
    /\ MainIdle
    /\ tpl_env \in TplEnvs
    /\ tpl_handle = [content |-> TextOf(tpl_env.text), pos |-> 0]
    /\ tpl_out = None
    /\ tpl_pc = "new"

TplNext == TemplateFile

SpecTemplate == TplInit /\ [][TplNext]_vars

QueryInit ==
    /\ RaceIdle
    /\ RepoIdle
    /\ SyncIdle
    /\ MainIdle
    /\ TplIdle
    /\ q_env \in QueryEnvs
    /\ q_op = ""
    /\ q_result = NoResult
    /\ q_pc = "new"

QueryNext ==
    \/ HasFile
    \/ PathToFile
    \/ GetFile
    \/ FileInfo

SpecQuery == QueryInit /\ [][QueryNext]_vars

RaceInit ==
    /\ RepoIdle
    /\ SyncIdle
    /\ MainIdle
    /\ TplIdle
    /\ QueryIdle
    /\ race_env \in RaceEnvs
    /\ runs = [r \in Runs |-> [NoRun EXCEPT !.pc = "new"]]
    /\ remote = HeldAtStart
    /\ remote_saves = << >>

RaceNext ==
    \E r \in Runs :
        \/ ConcurrentLoad(r)
        \/ ConcurrentUpdate(r)
        \/ ConcurrentSave(r)

SpecRace == RaceInit /\ [][RaceNext]_vars

Init ==
    /\ RaceIdle
    /\ TplIdle
    /\ QueryIdle
    /\ RepoIdle
    /\ SyncIdle
    /\ margs \in MainArgs
    /\ options = NoOptions
    /\ pc = "start"
    /\ TMPDIR = None
    /\ tmpdir_exists = FALSE
    /\ files = << >>
    /\ pending = ""
    /\ exit_status = ""
    /\ cleanups = 0
    /\ events = << >>
    /\ jss_saved = NoElements

Next ==
    \/ make_temp_dir
    \/ GetArgs
    \/ JssInfo
    \/ CheckTag
    \/ checkout_tag
    \/ EnumerateFiles
    \/ process_script
    \/ Finally

Spec == Init /\ [][Next]_vars

---------------------------------------------------------------------------
(* GitRepo: properties, checked under SpecRepo *)

Ran(cmd) == cmd \in Range(calls)

\* the ref the constructor was given
RequestedRef == Or(env.tag, env.branch)

\* no line of the remote's ref list has the requested ref as its short name
RefAbsent ==
    /\ Truthy(RequestedRef)
    /\ \A i \in 1..Len(env.reflist) :
          <<env.reflist[i][Len(env.reflist[i])]>> # RequestedRef[1]

\* C2: creation with a ref that is not in the remote's ref list (by short
\* name) fails with RefNotFoundError once the ref list was read, and the
\* clone command is never started in such a run.
C2_AbsentRefNeverCloned ==
    RefAbsent =>
        /\ ~Ran("git clone")
        /\ (Ran("git ls-remote") /\ env.ls_ok) => raised = "RefNotFoundError"

C2_Witness ==
    /\ RefAbsent
    /\ Ran("git ls-remote")
    /\ raised = "RefNotFoundError"
    /\ repo_pc = "exited"

\* C3: with a ref given and remote discovery run on a git directory, zero
\* remotes fail with NoRemoteError and two or more with
\* TooManyRemotesError, whatever the ref; neither the ref query nor the
\* clone is run.
C3_RemoteCountErrors ==
    (Truthy(RequestedRef) /\ env.discover.ok /\ Ran("git remote")) =>
        /\ Len(env.discover.remotes) = 0 => raised = "NoRemoteError"
        /\ Len(env.discover.remotes) >= 2 => raised = "TooManyRemotesError"
        /\ Len(env.discover.remotes) # 1 =>
              ~Ran("git ls-remote") /\ ~Ran("git clone") /\ ~Ran("git config")

C3_Witness ==
    /\ env.discover.ok
    /\ Len(env.discover.remotes) = 0
    /\ Ran("git remote")
    /\ raised = "NoRemoteError"

\* the output of the failed discovery command mentions 'Not a git repository'
MentionsNotAGitRepo ==
    \E i \in 1..Len(env.discover.output) :
        /\ i + Len(NotAGitRepoText) - 1 <= Len(env.discover.output)
        /\ SubSeq(env.discover.output, i, i + Len(NotAGitRepoText) - 1)
              = NotAGitRepoText

\* C4: a failed remote discovery whose output mentions 'Not a git
\* repository', at any position, raises NotAGitRepoError and creation does
\* not go on to the remote URL; a failure whose output does not mention it
\* is not reported as NotAGitRepoError.
C4_NotAGitRepoFromErrorText ==
    (~env.discover.ok /\ Ran("git remote")) =>
        /\ MentionsNotAGitRepo =>
              raised = "NotAGitRepoError" /\ repo_pc # "find_remote_url"
        /\ ~MentionsNotAGitRepo => raised # "NotAGitRepoError"

\* C6: a GitRepo whose creation succeeded has exactly one of tag and
\* branch set, and creation with neither raises ParameterError.
C6_ExactlyOneOfTagAndBranch ==
    /\ (repo_pc = "created" /\ raised = "") =>
          (Truthy(repo.tag) # Truthy(repo.branch))
    /\ (~Truthy(env.tag) /\ ~Truthy(env.branch) /\ repo_pc # "new") =>
          raised = "ParameterError"

\* C10: when the run is over, the temporary directory made by __init__ was
\* released exactly once and is gone, whether creation succeeded or failed.
C10_ReleasedExactlyOnce ==
    (repo_pc = "exited" /\ "tmp_dir" \in repo_attrs) =>
        del_calls = 1 /\ ~tmp_exists

\* a step that runs __del__, on reclaim or called by the holder
DelStep == del_calls' # del_calls \/ explicit_dels' # explicit_dels

\* C11: __del__ of an instance whose temporary directory was made raises
\* nothing and leaves the directory deleted; run when the directory is
\* already gone it changes nothing.
C11_DelIdempotent ==
    [][(DelStep /\ "tmp_dir" \in repo_attrs) =>
          /\ del_raised' = ""
          /\ ~tmp_exists'
          /\ ~tmp_exists => UNCHANGED <<tmp_exists, workspace, repo, repo_attrs>>]_vars

C11_Witness ==
    /\ explicit_dels = 2
    /\ "tmp_dir" \in repo_attrs
    /\ ~tmp_exists
    /\ del_raised = ""


---------------------------------------------------------------------------
(* Sync objects: properties, checked under SpecSync *)

\* the text update() puts into the outgoing object as its payload
Payload(elements) ==
    IF senv.variant = "Script" THEN elements.script_contents_encoded
    ELSE elements.mac_script

\* the text update() puts into the outgoing object as notes / description
Notes(elements) ==
    IF senv.variant = "Script" THEN elements.notes ELSE elements.description

\* C5: a second update() on the same loaded object, with the same repository
\* and the same arguments as the first, succeeds and leaves the notes /
\* description and the payload of the outgoing object as the first call
\* left them.
C5_SecondUpdateSameOutgoing ==
    [][(updates = 1 /\ updates' = 2) =>
          /\ sync_raised' = NoExc
          /\ Notes(target_object') = Notes(target_object)
          /\ Payload(target_object') = Payload(target_object)]_vars

---------------------------------------------------------------------------
(* main(): properties, checked under Spec *)

\* main() has entered its try statement: checkout_tag has started
EnteredTry == <<"git config", << >> >> \in Range(events)

\* C1: whenever main() has ended, by returning or by an exception or exit,
\* after the temporary directory was made, the directory is gone.
C1_TmpDirGoneOnEveryExit ==
    (pc = "done" /\ TMPDIR # None) => ~tmpdir_exists

\* C8: a single-file run of main() whose object name the JSS does not have
\* ends with TargetNotFoundError, never as a successful run, and nothing is
\* saved to the JSS.
C8_MissingTargetEndsInError ==
    (/\ pc = "done"
     /\ options.script_file # None
     /\ margs.jss_error = 0
     /\ \E e \in Range(events) : e[1] = "load failed") =>
        /\ exit_status = "TargetNotFoundError"
        /\ jss_saved = NoElements

\* C9: cleanup_tmp runs exactly once in a run of main() that entered the
\* checkout / per-file phase, also when checkout_tag or process_script
\* raised; it never runs twice.
C9_CleanupExactlyOnce ==
    /\ cleanups <= 1
    /\ (pc = "done" /\ EnteredTry) => cleanups = 1
    /\ (pc = "done" /\ pending # "") => (cleanups = 1 /\ exit_status = pending)

C9_Witness ==
    /\ pc = "done"
    /\ EnteredTry
    /\ pending = "JSSPutError"
    /\ cleanups = 1

\* main() has printed the connection information and has run no git
\* command and no load, update or save of a JSS object
OnlyInfoPrinted ==
    /\ \A i \in 1..Len(events) : events[i][1] = "print info"
    /\ jss_saved = NoElements
    /\ pc = "done" =>
          /\ exit_status = "SystemExit(0)"
          /\ <<"print info", << >> >> \in Range(events)

---------------------------------------------------------------------------
(* template_file: properties, checked under SpecTemplate *)

\* the value a placeholder's identifier has in the call, or None
ValueOf(id, data, kwargs) ==
    IF id \in DOMAIN kwargs THEN Some(kwargs[id])
    ELSE IF id \in DOMAIN data THEN Some(data[id])
    ELSE None

\* the text with every placeholder of a known identifier replaced by its
\* value, and every other piece as it is
RECURSIVE Rendered(_, _, _)
Rendered(pieces, data, kwargs) ==
    IF pieces = << >> THEN << >>
    ELSE LET piece == Head(pieces)
             v == ValueOf(piece.chars, data, kwargs)
         IN (IF piece.kind = "placeholder" /\ v # None THEN v[1]
             ELSE PieceText(piece))
            \o Rendered(Tail(pieces), data, kwargs)

AllReplaced ==
    tpl_pc = "done" =>
        /\ tpl_out # None
        /\ tpl_out[1] = Rendered(tpl_env.text, tpl_env.data, tpl_env.kwargs)

\* the text has an '@' directly after a delimiter
HasTripleAt(text) ==
    \E i \in 1..Len(text) :
        i + 2 <= Len(text) /\ text[i] = "@" /\ text[i + 1] = "@" /\ text[i + 2] = "@"

\* C13 as stated: template_file returns the text with every '@@identifier'
\* whose identifier is a key of the mapping or of the keyword arguments
\* replaced by the value, and every '@@identifier' of an unknown identifier
\* as it is; it returns for every text.
C13_EveryPlaceholderReplaced == AllReplaced

\* C13, amended: the same, for a text in which no delimiter is directly
\* followed by '@'.
C13_PlaceholdersReplacedNoTripleAt ==
    ~HasTripleAt(TextOf(tpl_env.text)) => AllReplaced

C13_Witness ==
    /\ tpl_pc = "done"
    /\ tpl_env.text = <<Placeholder(<<"L", "O", "G">>), Lit(<<" ">>), Placeholder(<<"x">>)>>
    /\ <<"L", "O", "G">> \in DOMAIN tpl_env.data
    /\ tpl_out = Some(tpl_env.data[<<"L", "O", "G">>] \o <<" ", "@", "@", "x">>)

\* C14: when an identifier is a key of the mapping and of the keyword
\* arguments, template_file renders the keyword's value: the mapping's value
\* for that key has no effect on the text returned.
C14_KeywordWins ==
    (/\ tpl_pc = "done"
     /\ ~HasTripleAt(TextOf(tpl_env.text))
     /\ DOMAIN tpl_env.data \cap DOMAIN tpl_env.kwargs # {}) =>
        LET both == DOMAIN tpl_env.data \cap DOMAIN tpl_env.kwargs
            rest == [k \in DOMAIN tpl_env.data \ both |-> tpl_env.data[k]]
        IN /\ tpl_out[1] = Rendered(tpl_env.text, rest, tpl_env.kwargs)
           /\ \A k \in both :
                 Placeholder(k) \in Range(tpl_env.text) =>
                     /\ \A c \in Range(tpl_env.kwargs[k]) : c \in Range(tpl_out[1])
                     /\ \A c \in Range(tpl_env.data[k]) : c \notin Range(tpl_out[1])

C14_Witness ==
    /\ tpl_pc = "done"
    /\ tpl_env.text = <<Placeholder(<<"U", "S", "E", "R">>)>>
    /\ <<"U", "S", "E", "R">> \in DOMAIN tpl_env.data \cap DOMAIN tpl_env.kwargs
    /\ tpl_env.data[<<"U", "S", "E", "R">>] = <<"m">>
    /\ tpl_env.kwargs[<<"U", "S", "E", "R">>] = <<"k">>
    /\ tpl_out = Some(<<"k">>)

---------------------------------------------------------------------------
(* Sync objects: more properties, checked under SpecSync *)

\* the elements hold the encoded script and not the plain one
EncodedOnly(elements) ==
    /\ "script_contents" \notin DOMAIN elements
    /\ "script_contents_encoded" \in DOMAIN elements

\* C15: once Script.update() has run, the outgoing object has no
\* script_contents element and has script_contents_encoded, and a save()
\* made after it sends the encoded element only.
C15_EncodedOnlyAfterUpdate ==
    /\ [](senv.variant = "Script" /\ updates >= 1 => EncodedOnly(target_object))
    /\ [][(senv.variant = "Script" /\ updates >= 1 /\ saves' = saves + 1) =>
              EncodedOnly(store')]_vars

C15_Witness ==
    /\ senv.variant = "Script"
    /\ updates = 1
    /\ saves = 1
    /\ store = target_object
    /\ EncodedOnly(store)

\* the whole content of the source file, templated as update() asks for it
\* or raw
ContentToSend ==
    IF senv.should_template
    THEN safe_substitute(obj.source_file.content, 1,
                         Multimap((K_USER :> senv.jss.user),
                                  file_info(senv.repo, obj.source_name)))
    ELSE obj.source_file.content

\* the form the content has in the payload element of the variant
Encoded(text) ==
    IF senv.variant = "Script" THEN b64encode(Utf8(text)) ELSE text

\* a step that is a call of update()
UpdateStep == updates' = updates + 1

\* C16: every update() leaves in the payload element the content of the
\* source file, templated when should_template is true and raw when it is
\* false: base64 of the UTF-8 bytes for a Script, the plain text in the Mac
\* script element for a ComputerExtensionAttribute.
C16_PayloadIsFileContent ==
    [][UpdateStep => Payload(target_object') = Encoded(ContentToSend)]_vars

\* the same for the first update() of an object only
FirstUpdateWritesContent ==
    [][(UpdateStep /\ updates = 0) =>
          Payload(target_object') = Encoded(ContentToSend)]_vars

---------------------------------------------------------------------------
(* The file queries: properties, checked under SpecQuery *)

\* the path argument does not start with '/'
IsRelative(path) == path[1] # ""

\* the place on the disk the path argument names: the workspace directory
\* followed by the path, '.' and '..' resolved
Location(r, path) == abspath(r.tmp_dir \o path)

\* C17: for a relative path, path_to_file, get_file and file_info raise
\* FileNotFoundError exactly when has_file is false, and return when
\* has_file is true.
C17_FileNotFoundIffNoFile ==
    (/\ q_pc = "done"
     /\ q_op \in {"path_to_file", "get_file", "file_info"}
     /\ IsRelative(q_env.path)) =>
        /\ (q_result.exc = "FileNotFoundError") = ~has_file(q_env.repo, q_env.path)
        /\ has_file(q_env.repo, q_env.path) => q_result.exc = ""

\* os.path.normpath of a relative path: '.' segments go, '..' drops the
\* segment before it, and stays when there is none to drop
RECURSIVE NormRel(_, _)
NormRel(done, rest) ==
    IF rest = << >> THEN done
    ELSE LET seg == Head(rest)
         IN IF seg = "." THEN NormRel(done, Tail(rest))
            ELSE IF seg = ".." /\ done # << >> /\ done[Len(done)] # ".."
            THEN NormRel(SubSeq(done, 1, Len(done) - 1), Tail(rest))
            ELSE NormRel(Append(done, seg), Tail(rest))

\* C18: relative paths that are the same once '.' and '..' are resolved
\* give the same has_file result and the same path_to_file result, and
\* has_file is true exactly when a regular file is at the workspace
\* directory followed by the resolved path.
C18_SameResultForSameNormalPath ==
    (/\ q_pc = "done"
     /\ q_op \in {"has_file", "path_to_file"}
     /\ IsRelative(q_env.path)) =>
        /\ \A other \in RelativePaths :
              NormRel(<< >>, other) = NormRel(<< >>, q_env.path) =>
                  IF q_op = "has_file"
                  THEN Some(has_file(q_env.repo, other)) = q_result.value
                  ELSE path_to_file(q_env.repo, other) = q_result
        /\ q_op = "has_file" =>
              (q_result.value = Some(TRUE)) =
                  (Location(q_env.repo, NormRel(<< >>, q_env.path))
                       \in DOMAIN q_env.repo.fs)

C18_Witness ==
    /\ q_pc = "done"
    /\ q_op = "path_to_file"
    /\ q_env.path = <<".", "d", "x">>
    /\ q_result = path_to_file(q_env.repo, <<"d", "..", "d", "x">>)
    /\ q_result.value = Some(<<"t", "d", "x">>)

\* the place the query looks at: the path argument joined to the workspace
\* directory as os.path.join does, '.' and '..' resolved
Resolved(r, path) == abspath(Join(r.tmp_dir, path))

\* C19: for every path argument, has_file is true and path_to_file and
\* get_file return only for a file inside the workspace directory, and the
\* path path_to_file returns is inside the workspace directory.
C19_QueriesStayInWorkspace ==
    (/\ q_pc = "done"
     /\ \/ q_op = "has_file" /\ q_result.value = Some(TRUE)
        \/ q_op \in {"path_to_file", "get_file"} /\ q_result.exc = "") =>
        /\ IsUnder(Resolved(q_env.repo, q_env.path), abspath(q_env.repo.tmp_dir))
        /\ q_op = "path_to_file" =>
              IsUnder(q_result.value[1], abspath(q_env.repo.tmp_dir))

---------------------------------------------------------------------------
(* GitRepo: more properties, checked under SpecRepo *)

EndsWithGit(url) ==
    Len(url) >= Len(GitSuffix)
    /\ SubSeq(url, Len(url) - Len(GitSuffix) + 1, Len(url)) = GitSuffix

\* C20: after a GitRepo was created from a source directory with one
\* remote, remote_url does not end in '.git', whatever URL is configured for
\* the remote.
C20_RemoteUrlWithoutGitSuffix ==
    (repo_pc = "created" /\ raised = "" /\ Len(env.discover.remotes) = 1) =>
        ~EndsWithGit(repo.remote_url)

---------------------------------------------------------------------------
(* main(): more properties, checked under Spec *)

\* a name that ends in .sh, .py or .pl and does not start with a dot
IsScriptName(name) ==
    /\ name[1] # "."
    /\ \E ext \in {<<"s", "h">>, <<"p", "y">>, <<"p", "l">>} :
          /\ Len(name) >= 3
          /\ SubSeq(name, Len(name) - 2, Len(name)) = <<".">> \o ext

\* the step of main() that makes the list of files
EnumerateStep == pc = "enumerate" /\ pc' = "loop"

\* C21: with --all the files to handle are exactly the files of the
\* checkout whose names end in .sh, .py or .pl and do not start with a dot;
\* with --file they are exactly the one named file.
C21_FilesOfTheCheckout ==
    [][EnumerateStep =>
          IF options.push_all
          THEN Range(files') = {f \in DOMAIN margs.checkout : IsScriptName(f)}
          ELSE files' = <<options.script_file[1]>>]_vars

\* the command line was parsed
Parsed == pc \notin {"start", "get_args"}

\* C22: a command line with both --name and --all is rejected: parsing ends
\* in an error, and nothing is done on the repository or on the JSS.
C22_NameWithAllRejected ==
    (margs.argv.push_all /\ margs.argv.script_name # None /\ Parsed)
        => (exit_status = "SystemExit(2)" /\ events = << >>)

---------------------------------------------------------------------------
(* Sync objects: opening, checked under SpecSync *)

\* the last component of a path
BaseName(path) == <<path[Len(path)]>>

SourceExists == Tail(senv.repo.tmp_dir) \o senv.source_file \in DOMAIN senv.repo.fs

\* the JSS answers, and has the object the sync object asks for
TargetExists == senv.jss.error = 0 /\ obj.target_name \in senv.jss.names

\* C24: opening a sync object for a source file the workspace does not
\* have, with a target the JSS has, fails with FileNotFoundError, the error
\* of get_file, not wrapped and not replaced.
C24_MissingSourceRaisesFileNotFound ==
    (sync_pc # "new" /\ ~SourceExists /\ TargetExists) =>
        (sync_pc = "failed" /\ sync_raised.exc = "FileNotFoundError")

\* C27: for a source file given as a path with directories, the sync object
\* reads the file at that path of the workspace and takes the file
\* information of that path, not of the file of the same base name at the
\* root; when the file at that path exists, opening succeeds.
C27_NestedSourceReadAtItsPath ==
    (sync_pc # "new" /\ Len(senv.source_file) > 1 /\ TargetExists) =>
        /\ SourceExists => sync_raised.exc # "FileNotFoundError"
        /\ (sync_pc = "opened" /\ updates = 0) =>
              /\ SourceExists
              /\ obj.source_file.content =
                    senv.repo.fs[Tail(senv.repo.tmp_dir) \o senv.source_file]
        /\ (updates > 0 /\ senv.variant = "Script") =>
              target_object.notes = GitLog(senv.repo, senv.source_file)

---------------------------------------------------------------------------
(* GitRepo: the clone, checked under SpecRepo *)

\* the clone command ran and exited non-zero: it failed by itself, or the
\* ref it was given is no branch and no tag of the remote
CloneExitedNonZero ==
    /\ Ran("git clone")
    /\ ~env.clone_ok \/ ~IsBranchOrTag(repo.ref[1], env.reflist)

\* C25: a clone command that exits non-zero during creation surfaces as a
\* Git2JSSError whose message is the output of the command; it is never
\* the raw process error, and the GitRepo is never created.
C25_CloneFailureIsGit2JSSError ==
    CloneExitedNonZero =>
        /\ raised = "Git2JSSError"
        /\ message = env.clone_output
        /\ repo_pc # "created"

C25_Witness ==
    /\ Ran("git clone")
    /\ ~env.clone_ok
    /\ raised = "Git2JSSError"
    /\ message = env.clone_output

\* the remote has a branch or a tag whose full name is the requested ref
FullNameOnRemote ==
    /\ Truthy(RequestedRef)
    /\ \E i \in 1..Len(env.reflist) :
          \/ env.reflist[i] = <<"refs", "heads">> \o RequestedRef[1]
          \/ env.reflist[i] = <<"refs", "tags">> \o RequestedRef[1]

\* C30: the ref test accepts exactly the names that are the full name of a
\* tag or branch of the remote: a name with '/' that the remote has is
\* accepted, and a name that is only the last segment of a longer ref name
\* is rejected with RefNotFoundError and never reaches the clone.
C30_RefAcceptedIffFullNameOnRemote ==
    (Truthy(RequestedRef) /\ Ran("git ls-remote") /\ env.ls_ok) =>
        /\ FullNameOnRemote => raised # "RefNotFoundError"
        /\ ~FullNameOnRemote =>
              (raised = "RefNotFoundError" /\ ~Ran("git clone"))

---------------------------------------------------------------------------
(* main(): the per-file loop, checked under Spec *)

\* the first call made for a file: the load of its object, done or failed
IsLoad(e) == e[1] \in {"load", "load failed"}

\* C26: files are handled one after another, and a file is saved only after
\* its object was loaded and its update was done: a file whose load failed
\* is not updated and not saved, the save or skip of a file comes before
\* the load of the next, and a run that never loaded an object saved
\* nothing.
C26_SaveOnlyAfterLoadAndUpdate ==
    /\ \A i \in 1..Len(events) :
          /\ events[i][1] = "save" =>
                /\ i >= 3
                /\ events[i - 1] = <<"update", events[i][2]>>
                /\ \E j \in 1..(i - 2) :
                      /\ events[j] = <<"load", events[i][2]>>
                      /\ \A k \in (j + 1)..(i - 1) :
                            ~IsLoad(events[k]) /\ events[k][1] # "save"
          /\ (IsLoad(events[i]) /\ i > 1) =>
                events[i - 1][1] \notin {"load", "git log", "update"}
          /\ (events[i][1] = "load failed" /\ i < Len(events)) =>
                IsLoad(events[i + 1])
    /\ \A n \in DOMAIN jss_saved : <<"save", n>> \in Range(events)
    /\ (\A i \in 1..Len(events) : ~IsLoad(events[i])) => jss_saved = NoElements

C26_Witness ==
    /\ pc = "done"
    /\ exit_status = "return"
    /\ DOMAIN jss_saved = {A_SH, B_PY}
    /\ \E i, j \in 1..Len(events) :
          i < j /\ events[i] = <<"save", A_SH>> /\ events[j] = <<"load", B_PY>>

\* the name process_script asks the JSS for
JssName(script) ==
    IF options.script_name = None THEN script ELSE options.script_name[1]

\* the JSS cannot give the object of that name: the load raises JSSGetError
CannotLoad(name) == margs.jss_error # 0 \/ name \notin margs.jss_names

\* the step of process_script for a file whose object cannot be loaded
SkipStep == pc = "loop" /\ files # << >> /\ CannotLoad(JssName(Head(files)))

---------------------------------------------------------------------------
(* Two runs on one JSS object, checked under SpecRace *)

\* the step that is the save of run r
SaveStep(r) == runs[r].pc = "updated" /\ runs'[r] # runs[r]

\* the JSS holds what run r pushes: its log and the content of its file
HoldsPushOf(r) ==
    /\ remote.notes = race_env.run[r].log
    /\ remote.text = race_env.run[r].content

\* C28: with the load, update and save of two runs on one object
\* interleaved, no save is refused because the object was saved since the
\* run loaded it: every save goes through, and the object ends as the run
\* that saved last wrote it, the update of the other run overwritten.
C28_LastSaveWins ==
    /\ [](\A r \in Runs : runs[r].exc = "" /\ runs[r].pc # "failed")
    /\ [](remote_saves # << >> => HoldsPushOf(remote_saves[Len(remote_saves)]))
    /\ [][\A r \in Runs :
            SaveStep(r) =>
                /\ runs'[r].pc = "saved"
                /\ remote_saves' = Append(remote_saves, r)]_vars

C28_Witness ==
    /\ \A r \in Runs : runs[r].pc = "saved" /\ runs[r].seen = 0
    /\ remote_saves = <<2, 1>>
    /\ race_env.run[1].content # race_env.run[2].content
    /\ HoldsPushOf(1)
    /\ ~HoldsPushOf(2)

===========================================================================
